---- MODULE Spec2Model ----
(***************************************************************************)
(* The JavaScript regex engine of shiki                                    *)
(* (packages/engine-javascript/src/index.ts): a pattern cache shared by    *)
(* scanners, scanner construction, and findNextMatchSync.                  *)
(*                                                                         *)
(* Strings are sequences of one-character strings.  Offsets are 0-based as *)
(* in JavaScript; the character at offset p of s is s[p + 1].              *)
(***************************************************************************)
EXTENDS Integers, Sequences, FiniteSets, TLC

VARIABLES cache,      \* Map<string, RegExp | Error>: pattern text -> reference
          heap,       \* the objects made by the compiler, by pattern text
          scanners,   \* the live JavaScriptScanner objects
          compiles,   \* number of regexConstructor calls per pattern text
          building,   \* constructions in progress (interleaved specification)
          ret,        \* what the last call did and returned
          hl          \* the meta-highlight transformer at work on a code block

vars == <<cache, heap, scanners, compiles, building, ret, hl>>

\* Numbers reported in a result are written in base 65536, high limb first,
\* because MAX is beyond the integers the model checker computes with.
Num(n) == [hi |-> n \div 65536, lo |-> n % 65536]

\* const MAX = 4294967295  (= 65535 * 65536 + 65535)
MAX == [hi |-> 65535, lo |-> 65535]

----------------------------------------------------------------------------
(* Bounds *)

MaxScanners == 2
MaxBuilders == 2

----------------------------------------------------------------------------
(* Strings *)

StartsWith(s, pre) == Len(s) >= Len(pre) /\ SubSeq(s, 1, Len(pre)) = pre

\* String.prototype.slice(start) for a non-negative start
Slice(s, start) == IF start >= Len(s) THEN <<>> ELSE SubSeq(s, start + 1, Len(s))

SetMin(S) == CHOOSE m \in S : \A n \in S : m <= n

\* '(^|\\G)' and '(\\G|^)'
AnchorPrefix1 == <<"(", "^", "|", "\\", "G", ")">>
AnchorPrefix2 == <<"(", "\\", "G", "|", "^", ")">>

----------------------------------------------------------------------------
(* The pattern texts handed to createScanner *)

\* a
PA == <<"a">>
\* (\G|^)(?<!xb)(x)?a
PG == AnchorPrefix2 \o <<"(", "?", "<", "!", "x", "b", ")", "(", "x", ")", "?", "a">>
\* (?:^|\G)b  -- an anchor group that is not one of the two prefixes
PB == <<"(", "?", ":", "^", "|", "\\", "G", ")", "b">>
\* (^|\G)a?  -- matches the empty string
PE == AnchorPrefix1 \o <<"a", "?">>
\* (?<n  -- not a valid pattern: the compiler rejects it
PBad == <<"(", "?", "<", "n">>
\* a pattern whose matcher raises when it is executed
PThrow == <<"t">>

Patterns == {PA, PB, PG, PE, PBad, PThrow}

PatternLists ==
    { <<>>,
      <<PA, PG>>,
      <<PG, PA>>,
      <<PBad, PA, PA, PE>>,
      <<PA, PThrow, PB>> }

Buffers == { <<"x", "b", "a">> }

\* startPosition: any offset up to one past the end of the buffer
StartPositions == UNION {0 .. Len(str) + 1 : str \in Buffers}

----------------------------------------------------------------------------
(* References and heap objects *)

Absent == [kind |-> "absent"]      \* Map.get of a missing key: undefined
NullRef == [kind |-> "null"]       \* null in a scanner's regexps list
RegExpRef(id) == [kind |-> "RegExp", id |-> id]
ErrorRef(id) == [kind |-> "Error", id |-> id]

\* An object is identified by the pattern text the compiler was given and
\* its rank among the objects made from that text: heap[p] lists them.
NewId(h, p) == <<p, Len(h[p]) + 1>>
Alloc(h, p, obj) == [h EXCEPT ![p] = Append(@, obj)]
Deref(h, id) == h[id[1]][id[2]]
Ids(h) == UNION {{<<p, n>> : n \in 1 .. Len(h[p])} : p \in DOMAIN h}

----------------------------------------------------------------------------
(* The matcher: what the compiled RegExp of each pattern text does.        *)
(* A compiled form is                                                      *)
(*   anchor  the pattern begins with the capturing group (^|), which is    *)
(*           what the converter leaves of (^|\G) and (\G|^);               *)
(*   nlb     the characters of a negative lookbehind, <<>> for none;       *)
(*   grp     the character of an optional capturing group (c)?, "" for     *)
(*           none;                                                         *)
(*   body    the literal character matched last;                           *)
(*   opt     the body is optional (c?);                                    *)
(*   throws  exec raises instead of searching.                             *)
(***************************************************************************)

Form(anchor, nlb, grp, body, opt, throws) ==
    [anchor |-> anchor, nlb |-> nlb, grp |-> grp, body |-> body, opt |-> opt,
     throws |-> throws]

\* regexConstructor: the compiled form of a pattern, or a failure
RegexConstructor(p) ==
    CASE p = PA     -> [ok |-> TRUE, form |-> Form(FALSE, <<>>, "", "a", FALSE, FALSE)]
      [] p = PB     -> [ok |-> TRUE, form |-> Form(FALSE, <<>>, "", "b", FALSE, FALSE)]
      [] p = PG     -> [ok |-> TRUE,
                        form |-> Form(TRUE, <<"x", "b">>, "x", "a", FALSE, FALSE)]
      [] p = PE     -> [ok |-> TRUE, form |-> Form(TRUE, <<>>, "", "a", TRUE, FALSE)]
      [] p = PThrow -> [ok |-> TRUE, form |-> Form(FALSE, <<>>, "", "t", FALSE, TRUE)]
      [] OTHER      -> [ok |-> FALSE]

NullIndice == [kind |-> "null"]
Indice(s, e) == [kind |-> "span", s |-> s, e |-> e]

NoMatch == [kind |-> "null"]

\* The match of form f in s that begins at offset p, if there is one:
\* match.index and match.indices (group 0 first).
MatchAt(f, s, p) ==
    LET n == Len(f.nlb)
        behind == n > 0 /\ p >= n /\ SubSeq(s, p - n + 1, p) = f.nlb
        hasG == f.grp # ""
        bodyG == p + 2 <= Len(s) /\ s[p + 2] = f.body
        body0 == p + 1 <= Len(s) /\ s[p + 1] = f.body
        withG == hasG /\ p + 1 <= Len(s) /\ s[p + 1] = f.grp /\ (bodyG \/ f.opt)
        noG == body0 \/ f.opt
        e == IF withG THEN (IF bodyG THEN p + 2 ELSE p + 1)
             ELSE IF body0 THEN p + 1 ELSE p
        g0 == <<Indice(p, e)>>
        gA == IF f.anchor THEN <<Indice(p, p)>> ELSE <<>>
        gG == IF ~hasG THEN <<>>
              ELSE IF withG THEN <<Indice(p, p + 1)>> ELSE <<NullIndice>>
    IN  IF behind \/ ~(withG \/ noG) THEN NoMatch
        ELSE [kind |-> "match", index |-> p, indices |-> g0 \o gA \o gG]

Matched(m) == [kind |-> "match", match |-> m, lastIndex |-> m.indices[1].e]

\* The leftmost of the offsets where f matches
FirstOf(f, s, at) ==
    IF at = {} THEN [kind |-> "null", lastIndex |-> 0]
    ELSE Matched(MatchAt(f, s, SetMin(at)))

\* RegExp.prototype.exec of a global regex: the search starts at lastIndex,
\* and lastIndex is left at the end of the match, or at 0 when there is none.
Exec(f, s, lastIndex) ==
    IF f.throws THEN [kind |-> "throw", lastIndex |-> lastIndex]
    ELSE IF lastIndex > Len(s) THEN [kind |-> "null", lastIndex |-> 0]
    ELSE FirstOf(f, s, {p \in lastIndex .. Len(s) : MatchAt(f, s, p).kind = "match"})

----------------------------------------------------------------------------
(* The cache *)

\* CacheGet that never finds anything
CacheGetMiss(c, p) == Absent

CacheGet(c, p) == c[p]

\* CacheSet that starts a new map holding only the new entry
CacheSetFresh(c, p, v) == [q \in DOMAIN c |-> IF q = p THEN v ELSE Absent]

CacheSet(c, p, v) == [c EXCEPT ![p] = v]

----------------------------------------------------------------------------
(* Scanner construction *)

\* IsContiguousAnchor that knows the first prefix only
IsContiguousAnchorFirst(p) == StartsWith(p, AnchorPrefix1)

\* p.startsWith('(^|\\G)') || p.startsWith('(\\G|^)')
IsContiguousAnchor(p) == StartsWith(p, AnchorPrefix1) \/ StartsWith(p, AnchorPrefix2)

\* The state a construction works on: the shared cache and heap, and the
\* scanner's own lists as built so far.  thrown is the error that ended it.
ConstructStart(c, h, n, patterns) ==
    [cache |-> c, heap |-> h, compiles |-> n,
     regexps |-> <<>>,
     contiguousAnchorSimulation |-> [i \in 1 .. Len(patterns) |-> FALSE],
     thrown |-> NullRef]

\* cache?.set(p, regex)
RecordCompiled(c, p, ref) == CacheSet(c, p, ref)

\* RecordFailure that forgets the failure
RecordFailureSkipped(c, p, ref) == c

\* cache?.set(p, e as Error)
RecordFailure(c, p, ref) == CacheSet(c, p, ref)

\* Fail that throws even when forgiving
FailAlwaysThrows(st, err, forgiving) == [st EXCEPT !.thrown = err]

\* Fail that disables the pattern even when not forgiving
FailAlwaysNull(st, err, forgiving) == [st EXCEPT !.regexps = Append(@, NullRef)]

\* Fail that leaves no slot for the pattern when forgiving
FailDropsSlot(st, err, forgiving) == IF forgiving THEN st ELSE [st EXCEPT !.thrown = err]

\* What a pattern that cannot be compiled does to the construction:
\* if (forgiving) return null; throw <the error>
Fail(st, err, forgiving) ==
    IF forgiving
    THEN [st EXCEPT !.regexps = Append(@, NullRef)]
    ELSE [st EXCEPT !.thrown = err]

\* The callback of patterns.map for the pattern at position idx (1-based)
ConstructCallback(st, p, idx, forgiving) ==
    LET anc == IF IsContiguousAnchor(p)
               THEN [st.contiguousAnchorSimulation EXCEPT ![idx] = TRUE]
               ELSE st.contiguousAnchorSimulation
        st1 == [st EXCEPT !.contiguousAnchorSimulation = anc]
        cached == CacheGet(st.cache, p)
        id == NewId(st.heap, p)
        compiled == RegexConstructor(p)
        counted == [st.compiles EXCEPT ![p] = @ + 1]
    IN  IF cached.kind # "absent"
        THEN IF cached.kind = "RegExp"
             THEN [st1 EXCEPT !.regexps = Append(@, cached)]
             ELSE Fail(st1, cached, forgiving)
        ELSE IF compiled.ok
             THEN [st1 EXCEPT
                     !.heap = Alloc(@, p, [type |-> "RegExp", source |-> p, lastIndex |-> 0]),
                     !.cache = RecordCompiled(@, p, RegExpRef(id)),
                     !.compiles = counted,
                     !.regexps = Append(@, RegExpRef(id))]
             ELSE Fail([st1 EXCEPT
                          !.heap = Alloc(@, p, [type |-> "Error", source |-> p]),
                          !.cache = RecordFailure(@, p, ErrorRef(id)),
                          !.compiles = counted],
                       ErrorRef(id), forgiving)

\* patterns.map: the callback for each pattern in order, until one throws
RECURSIVE Construct(_, _, _, _)
Construct(st, patterns, idx, forgiving) ==
    IF idx > Len(patterns) \/ st.thrown # NullRef THEN st
    ELSE Construct(ConstructCallback(st, patterns[idx], idx, forgiving),
                   patterns, idx + 1, forgiving)

Scanner(patterns, forgiving, st) ==
    [patterns |-> patterns, forgiving |-> forgiving,
     regexps |-> st.regexps,
     contiguousAnchorSimulation |-> st.contiguousAnchorSimulation]

----------------------------------------------------------------------------
(* findNextMatchSync *)

NullResult == [kind |-> "null"]

\* ToResult that corrects the offsets of group 0 only
ToResultGroup0(index, match, offset) ==
    [kind |-> "result",
     index |-> index,
     captureIndices |->
        [g \in 1 .. Len(match.indices) |->
            LET indice == match.indices[g]
                off == IF g = 1 THEN offset ELSE 0
            IN  IF indice.kind = "null"
                THEN [start |-> MAX, length |-> Num(0), end |-> MAX]
                ELSE [start |-> Num(indice.s + off),
                      length |-> Num(indice.e - indice.s),
                      end |-> Num(indice.e + off)]]]

\* toResult(index, match, offset)
ToResult(index, match, offset) ==
    [kind |-> "result",
     index |-> index,
     captureIndices |->
        [g \in 1 .. Len(match.indices) |->
            LET indice == match.indices[g]
            IN  IF indice.kind = "null"
                THEN [start |-> MAX, length |-> Num(0), end |-> MAX]
                ELSE [start |-> Num(indice.s + offset),
                      length |-> Num(indice.e - indice.s),
                      end |-> Num(indice.e + offset)]]]

\* SetLastIndex that leaves the matcher as it was
SetLastIndexSkipped(h, id, n) == h

\* regexp.lastIndex = n
SetLastIndex(h, id, n) == [h EXCEPT ![id[1]][id[2]].lastIndex = n]

\* What a search leaves behind: its outcome r, the offset to add to its
\* indices, whether it was the retry on the cut string, and the heap with
\* the matcher's lastIndex as exec left it
Searched(r, offset, retry, h, id) ==
    [kind |-> r.kind,
     match |-> IF r.kind = "match" THEN r.match ELSE NoMatch,
     offset |-> offset,
     retry |-> retry,
     heap |-> [h EXCEPT ![id[1]][id[2]].lastIndex = r.lastIndex]]

\* regexp.exec(s) for the matcher object id: the search starts at the
\* lastIndex the object holds
ExecOn(h, id, s, offset, retry) ==
    Searched(Exec(RegexConstructor(Deref(h, id).source).form, s, Deref(h, id).lastIndex),
             offset, retry, h, id)

\* FirstSearch that searches from the lastIndex the matcher happens to hold
FirstSearchFromLast(sc, i, str, startPosition, h) ==
    ExecOn(h, sc.regexps[i].id, str, 0, FALSE)

\* The first search of the loop body for the matcher at position i (1-based):
\* regexp.lastIndex = startPosition; match = regexp.exec(str)
FirstSearch(sc, i, str, startPosition, h) ==
    ExecOn(SetLastIndex(h, sc.regexps[i].id, startPosition), sc.regexps[i].id, str,
           0, FALSE)

\* RetrySearch that leaves the offsets as the cut string gives them
RetrySearchUnshifted(sc, i, str, startPosition, h) ==
    ExecOn(SetLastIndex(h, sc.regexps[i].id, 0), sc.regexps[i].id,
           Slice(str, startPosition), 0, TRUE)

\* The retry on the cut string:
\* offset = startPosition; regexp.lastIndex = 0; match = regexp.exec(str.slice(startPosition))
RetrySearch(sc, i, str, startPosition, h) ==
    ExecOn(SetLastIndex(h, sc.regexps[i].id, 0), sc.regexps[i].id,
           Slice(str, startPosition), startPosition, TRUE)

\* if (!match && this.contiguousAnchorSimulation[i]): the retry replaces the
\* outcome of the first search
RetryIfFlagged(sc, i, str, startPosition, first) ==
    IF first.kind = "null" /\ sc.contiguousAnchorSimulation[i]
    THEN RetrySearch(sc, i, str, startPosition, first.heap)
    ELSE first

\* The searches of the loop body: the first one and, when it finds nothing
\* and the pattern is flagged, the retry.
TryPattern(sc, i, str, startPosition, h) ==
    RetryIfFlagged(sc, i, str, startPosition, FirstSearch(sc, i, str, startPosition, h))

\* SelectPending that finds nothing among the pending entries
SelectPendingNone(pending) == NullResult

\* SelectPending that reports the closest match under the index of the first
\* pending entry
SelectPendingFirstIndex(pending) ==
    IF Len(pending) = 0 THEN NullResult
    ELSE LET minIndex == SetMin({pending[k][2].index : k \in 1 .. Len(pending)})
             k == SetMin({j \in 1 .. Len(pending) : pending[j][2].index = minIndex})
         IN  ToResult(pending[1][1], pending[k][2], pending[k][3])

\* Find the closest match to the start position among the pending entries
\* <<index, match, offset>>
SelectPending(pending) ==
    IF Len(pending) = 0 THEN NullResult
    ELSE LET minIndex == SetMin({pending[k][2].index : k \in 1 .. Len(pending)})
             k == SetMin({j \in 1 .. Len(pending) : pending[j][2].index = minIndex})
         IN  ToResult(pending[k][1], pending[k][2], pending[k][3])

\* Whether a match is "at the start position": match.index === startPosition
AtStartPosition(match, offset, startPosition) == match.index = startPosition

\* Swallows that ignores the errors of every scanner
SwallowsAlways(sc) == TRUE

\* if (this.forgiving): whether the catch block goes on with the next pattern
Swallows(sc) == sc.forgiving

\* The entry of the call's log for the matcher at position i: log lists the
\* matchers the loop executed, with what their searches gave
Logged(i, t) == [index |-> i - 1, kind |-> t.kind, retry |-> t.retry]

\* The loop over this.regexps from position i (1-based) on, and what follows
\* it; AfterSearch is the rest of the loop body once the searches gave t.
\* Pattern indices in results are 0-based.
RECURSIVE ScanFrom(_, _, _, _, _, _, _)

\* Caught that ends the loop at the first error it swallows
CaughtBreak(sc, str, startPosition, i, pending, log, t) ==
    IF Swallows(sc)
    THEN [status |-> "ok", result |-> SelectPending(pending), heap |-> t.heap,
          log |-> log]
    ELSE [status |-> "throw", result |-> NullResult, heap |-> t.heap, log |-> log]

\* catch (e) { if (this.forgiving) continue; throw e }
Caught(sc, str, startPosition, i, pending, log, t) ==
    IF Swallows(sc)
    THEN ScanFrom(sc, str, startPosition, i + 1, t.heap, pending, log)
    ELSE [status |-> "throw", result |-> NullResult, heap |-> t.heap, log |-> log]

AfterSearch(sc, str, startPosition, i, pending, log, t) ==
    CASE t.kind = "throw" ->
           Caught(sc, str, startPosition, i, pending, log, t)
      [] t.kind = "null" ->
           ScanFrom(sc, str, startPosition, i + 1, t.heap, pending, log)
      [] OTHER ->
           IF AtStartPosition(t.match, t.offset, startPosition)
           THEN [status |-> "ok",
                 result |-> ToResult(i - 1, t.match, t.offset),
                 heap |-> t.heap,
                 log |-> log]
           ELSE ScanFrom(sc, str, startPosition, i + 1, t.heap,
                         Append(pending, <<i - 1, t.match, t.offset>>), log)

Tried(sc, str, startPosition, i, pending, log, t) ==
    AfterSearch(sc, str, startPosition, i, pending, Append(log, Logged(i, t)), t)

ScanFrom(sc, str, startPosition, i, h, pending, log) ==
    IF i > Len(sc.regexps)
    THEN [status |-> "ok", result |-> SelectPending(pending), heap |-> h, log |-> log]
    ELSE IF sc.regexps[i].kind = "null"
    THEN ScanFrom(sc, str, startPosition, i + 1, h, pending, log)
    ELSE Tried(sc, str, startPosition, i, pending, log,
               TryPattern(sc, i, str, startPosition, h))

\* The positions (0-based) of the scanner's matchers that hold a lastIndex
\* other than 0
Stale(sc, h) ==
    {i - 1 : i \in {j \in 1 .. Len(sc.regexps) :
                        /\ sc.regexps[j].kind = "RegExp"
                        /\ Deref(h, sc.regexps[j].id).lastIndex # 0}}

\* Whether a matcher of the scanner holds a lastIndex other than 0
Dirty(sc, h) ==
    \E i \in 1 .. Len(sc.regexps) :
        sc.regexps[i].kind = "RegExp" /\ Deref(h, sc.regexps[i].id).lastIndex # 0

\* dirty and stale record whether and where the call found a matcher an
\* earlier search had left with a lastIndex other than 0; log lists the
\* matchers the call executed
Called(sc, str, startPosition, r) ==
    /\ heap' = r.heap
    /\ ret' = [op |-> "findNextMatch", status |-> r.status,
               scanner |-> sc, str |-> str, startPosition |-> startPosition,
               dirty |-> Dirty(sc, heap),
               stale |-> Stale(sc, heap),
               log |-> r.log,
               result |-> r.result]

\* sc.findNextMatchSync(str, startPosition) on one of the live scanners
FindNextMatch(str, startPosition) ==
    /\ startPosition <= Len(str) + 1
    /\ \E sc \in scanners :
          Called(sc, str, startPosition, ScanFrom(sc, str, startPosition, 1, heap, <<>>, <<>>))
    /\ UNCHANGED <<cache, scanners, compiles, building, hl>>

----------------------------------------------------------------------------
(* The meta-highlight transformer: parseMetaHighlightString and the line   *)
(* hook of transformerMetaHighlight.                                       *)

MaxLines == 6

Digits == <<"0", "1", "2", "3", "4", "5", "6", "7", "8", "9">>
IsDigit(c) == \E d \in 1 .. 10 : Digits[d] = c
DigitValue(c) == (CHOOSE d \in 1 .. 10 : Digits[d] = c) - 1

\* NaN is no integer; parseInt never gives a negative number here, because
\* the strings it is given hold no '-'
NaN == -1

\* Number.parseInt(v, 10): the value of the leading digits, NaN without any
RECURSIVE DigitsValue(_, _, _)
DigitsValue(v, k, acc) ==
    IF k > Len(v) \/ ~IsDigit(v[k]) THEN acc
    ELSE DigitsValue(v, k + 1, acc * 10 + DigitValue(v[k]))
ParseInt(v) == IF Len(v) = 0 \/ ~IsDigit(v[1]) THEN NaN ELSE DigitsValue(v, 1, 0)

\* String.prototype.split(sep) for a one-character separator
RECURSIVE Split(_, _)
Split(v, sep) ==
    IF \A k \in 1 .. Len(v) : v[k] # sep THEN <<v>>
    ELSE LET k == SetMin({j \in 1 .. Len(v) : v[j] = sep})
         IN  <<SubSeq(v, 1, k - 1)>> \o Split(SubSeq(v, k + 1, Len(v)), sep)

\* [\d,-]
InListClass(c) == IsDigit(c) \/ c = "," \/ c = "-"

\* The end (exclusive, 1-based) of the longest run of [\d,-] from position k
RECURSIVE RunEnd(_, _)
RunEnd(m, k) == IF k <= Len(m) /\ InListClass(m[k]) THEN RunEnd(m, k + 1) ELSE k

\* meta.match(/\{([\d,-]+)\}/): group 1 of the leftmost match, or null
NoList == [kind |-> "null"]
BraceAt(m, k) ==
    /\ m[k] = "{"
    /\ RunEnd(m, k + 1) > k + 1
    /\ RunEnd(m, k + 1) <= Len(m)
    /\ m[RunEnd(m, k + 1)] = "}"
MetaMatch(m) ==
    IF \A k \in 1 .. Len(m) : ~BraceAt(m, k) THEN NoList
    ELSE LET k == SetMin({j \in 1 .. Len(m) : BraceAt(m, j)})
         IN  [kind |-> "list", group |-> SubSeq(m, k + 1, RunEnd(m, k + 1) - 1)]

\* RangeOf that leaves out the last line of the range
RangeOfShort(a, b) ==
    IF a = NaN \/ b = NaN \/ b - a <= 0 THEN <<>>
    ELSE [i \in 1 .. b - a |-> i - 1 + a]

\* Array.from({ length: b - a + 1 }, (_, i) => i + a): a NaN or negative
\* length gives the empty array
RangeOf(a, b) ==
    IF a = NaN \/ b = NaN \/ b - a + 1 <= 0 THEN <<>>
    ELSE [i \in 1 .. b - a + 1 |-> i - 1 + a]

\* The callback of flatMap for one item v of the list
LinesOfItem(v) ==
    LET parts == Split(v, "-")
        num == [k \in 1 .. Len(parts) |-> ParseInt(parts[k])]
    IN  IF Len(num) = 1 THEN <<num[1]>> ELSE RangeOf(num[1], num[2])

RECURSIVE FlatMap(_, _)
FlatMap(items, k) ==
    IF k > Len(items) THEN <<>> ELSE LinesOfItem(items[k]) \o FlatMap(items, k + 1)

\* parseMetaHighlightString(meta) for a string meta
NoLines == [kind |-> "null"]
Lines(l) == [kind |-> "lines", lines |-> l]
Parsed(match) ==
    IF match.kind = "null" THEN NoLines
    ELSE Lines(FlatMap(Split(match.group, ","), 1))
ParseMetaHighlightString(meta) ==
    IF Len(meta) = 0 THEN NoLines ELSE Parsed(MetaMatch(meta))

\* The raw meta strings of the code blocks
Raw(s) == [kind |-> "string", s |-> s]
Metas ==
    { Absent,
      Raw(<<>>),
      Raw(<<"t", "s">>),
      Raw(<<"{", "}">>),
      Raw(<<"{", "1", ",", "3", "-", "5", "}">>),
      Raw(<<"{", "2", "}">>),
      Raw(<<"{", "0", "}">>),
      Raw(<<"{", "1", "2", "}">>),
      Raw(<<"{", "4", "-", "4", "}">>),
      Raw(<<"{", "5", "-", "2", "}">>),
      Raw(<<"t", "{", "2", "-", "3", "}", " ", "s">>),
      Raw(<<"{", "t", "}", "{", "6", ",", "1", "}">>) }

\* The transformer on a code block: options.meta.__raw, options.zeroIndexed,
\* this.meta[symbol], the lines given the class so far, and the number of
\* the last line the hook was called on
Unset == [kind |-> "undefined"]
Transformer(raw, zeroIndexed) ==
    [raw |-> raw, zeroIndexed |-> zeroIndexed, symbol |-> Unset,
     classes |-> {}, line |-> 0]

Includes(lines, n) == \E k \in 1 .. Len(lines) : lines[k] = n

\* this.meta[symbol] ||= parseMetaHighlightString(raw): a null or undefined
\* entry is replaced by the parse, an array (even an empty one) is kept
OrAssign(symbol, raw) ==
    IF symbol.kind = "lines" THEN symbol ELSE ParseMetaHighlightString(raw)

\* The rest of the hook once this.meta[symbol] is symbol
Highlighted(line, symbol) ==
    LET lines == IF symbol.kind = "lines" THEN symbol.lines ELSE <<>>
        lineIndex == IF hl.zeroIndexed THEN line - 1 ELSE line
    IN  hl' = [hl EXCEPT !.symbol = symbol,
                         !.line = line,
                         !.classes = IF Includes(lines, lineIndex)
                                     THEN @ \cup {line} ELSE @]

\* line(node, line): the hook, called on the lines of the block in order
Line ==
    /\ hl.line < MaxLines
    /\ IF hl.raw.kind = "absent" \/ Len(hl.raw.s) = 0
       THEN hl' = [hl EXCEPT !.line = hl.line + 1]
       ELSE Highlighted(hl.line + 1, OrAssign(hl.symbol, hl.raw.s))
    /\ UNCHANGED <<cache, heap, scanners, compiles, building, ret>>

----------------------------------------------------------------------------

Idle == [pc |-> "idle"]

Init ==
    /\ cache = [p \in Patterns |-> Absent]
    /\ heap = [p \in Patterns |-> <<>>]
    /\ scanners = {}
    /\ compiles = [p \in Patterns |-> 0]
    /\ building = [b \in 1 .. MaxBuilders |-> Idle]
    /\ ret = [op |-> "none"]
    /\ hl = Transformer(Absent, FALSE)

\* The patterns the compiler was called on between two values of compiles
Compiled(before, after) == {p \in Patterns : after[p] > before[p]}

\* What a construction that ended in st leaves behind
Constructed(patterns, forgiving, st) ==
    /\ cache' = st.cache
    /\ heap' = st.heap
    /\ compiles' = st.compiles
    /\ IF st.thrown = NullRef
       THEN /\ scanners' = scanners \cup {Scanner(patterns, forgiving, st)}
            /\ ret' = [op |-> "createScanner", status |-> "ok",
                       patterns |-> patterns, forgiving |-> forgiving,
                       compiled |-> Compiled(compiles, st.compiles),
                       scanner |-> Scanner(patterns, forgiving, st)]
       ELSE /\ scanners' = scanners
            /\ ret' = [op |-> "createScanner", status |-> "throw",
                       patterns |-> patterns, forgiving |-> forgiving,
                       compiled |-> Compiled(compiles, st.compiles),
                       error |-> st.thrown]

\* createScanner(patterns) on an engine with the given forgiving flag
CreateScanner(patterns, forgiving) ==
    /\ Cardinality(scanners) < MaxScanners
    /\ Constructed(patterns, forgiving,
                   Construct(ConstructStart(cache, heap, compiles, patterns),
                             patterns, 1, forgiving))
    /\ UNCHANGED <<building, hl>>

----------------------------------------------------------------------------
(* Constructions in progress at the same time.  A construction runs the   *)
(* callback of patterns.map once per pattern; the callback runs to its end *)
(* without yielding, so constructions interleave between callbacks only.   *)

Builders == 1 .. MaxBuilders

InProgress(b) == building[b].pc \in {"map", "done"}

\* new JavaScriptScanner(patterns, cache, forgiving): up to the call of map
BeginConstruct(b, patterns, forgiving) ==
    /\ building[b].pc = "idle"
    /\ building' = [building EXCEPT ![b] =
          [pc |-> IF Len(patterns) = 0 THEN "done" ELSE "map",
           patterns |-> patterns, forgiving |-> forgiving, idx |-> 1,
           regexps |-> <<>>,
           contiguousAnchorSimulation |-> [i \in 1 .. Len(patterns) |-> FALSE]]]
    /\ scanners' = IF Len(patterns) = 0
                   THEN scanners \cup {Scanner(patterns, forgiving, building'[b])}
                   ELSE scanners
    /\ UNCHANGED <<cache, heap, compiles, ret, hl>>

\* One callback of patterns.map in construction b
MapCallback(b) ==
    /\ building[b].pc = "map"
    /\ LET cur == building[b]
           st == ConstructCallback(
                    [cache |-> cache, heap |-> heap, compiles |-> compiles,
                     regexps |-> cur.regexps,
                     contiguousAnchorSimulation |-> cur.contiguousAnchorSimulation,
                     thrown |-> NullRef],
                    cur.patterns[cur.idx], cur.idx, cur.forgiving)
           pc == IF st.thrown # NullRef THEN "thrown"
                 ELSE IF cur.idx = Len(cur.patterns) THEN "done" ELSE "map"
       IN  /\ cache' = st.cache
           /\ heap' = st.heap
           /\ compiles' = st.compiles
           /\ building' = [building EXCEPT ![b] =
                 [cur EXCEPT !.pc = pc, !.idx = cur.idx + 1,
                             !.regexps = st.regexps,
                             !.contiguousAnchorSimulation = st.contiguousAnchorSimulation]]
           /\ scanners' = IF pc = "done"
                          THEN scanners \cup {Scanner(cur.patterns, cur.forgiving, st)}
                          ELSE scanners
    /\ UNCHANGED <<ret, hl>>

NextConc ==
    \/ \E b \in Builders, patterns \in PatternLists, forgiving \in BOOLEAN :
          BeginConstruct(b, patterns, forgiving)
    \/ \E b \in Builders : MapCallback(b)

SpecConc == Init /\ [][NextConc]_vars

Next ==
    \/ \E patterns \in PatternLists, forgiving \in BOOLEAN : CreateScanner(patterns, forgiving)
    \/ \E str \in Buffers, sp \in StartPositions : FindNextMatch(str, sp)

Spec == Init /\ [][Next]_vars

\* A code block with any of the metas, rendered line by line
InitMeta ==
    /\ cache = [p \in Patterns |-> Absent]
    /\ heap = [p \in Patterns |-> <<>>]
    /\ scanners = {}
    /\ compiles = [p \in Patterns |-> 0]
    /\ building = [b \in 1 .. MaxBuilders |-> Idle]
    /\ ret = [op |-> "none"]
    /\ \E raw \in Metas, zeroIndexed \in BOOLEAN : hl = Transformer(raw, zeroIndexed)

NextMeta == Line

SpecMeta == InitMeta /\ [][NextMeta]_vars

----------------------------------------------------------------------------
(* Properties.  ret holds the last call: its arguments and what it         *)
(* returned or threw.                                                      *)

LastFind == ret.op = "findNextMatch"
LastCreate == ret.op = "createScanner"
Returned == LastFind /\ ret.status = "ok" /\ ret.result.kind = "result"

\* The positions (1-based) of a scanner whose matcher is not null
Usable(sc) == {i \in 1 .. Len(sc.regexps) : sc.regexps[i].kind = "RegExp"}

\* What the matcher at position i finds for the arguments of a call: by the
\* search from startPosition or, for a flagged pattern, by the retry
Attempt(sc, i, str, sp) == TryPattern(sc, i, str, sp, heap)
Matching(sc, str, sp) == {i \in Usable(sc) : Attempt(sc, i, str, sp).kind = "match"}
FromRetry(sc, i, str, sp) == FirstSearch(sc, i, str, sp, heap).kind # "match"

\* The start of that match as an offset of the whole buffer
AbsStart(sc, i, str, sp) ==
    Attempt(sc, i, str, sp).match.index + Attempt(sc, i, str, sp).offset

Fails(p) == ~RegexConstructor(p).ok
ObjectsOf(p) == {id \in Ids(heap) : Deref(heap, id).source = p}

\* C1: when no usable pattern matches exactly at startPosition but some
\* match later, findNextMatch returns the candidate whose match start, as an
\* offset of the buffer, is the minimum over all patterns' matches (those of
\* the retry included), and among those the one with the lowest index.
C1_EarliestLaterMatch ==
    (LastFind /\ ret.status = "ok") =>
        LET sc == ret.scanner
            str == ret.str
            sp == ret.startPosition
            M == Matching(sc, str, sp)
        IN  (M # {} /\ \A i \in M : AbsStart(sc, i, str, sp) # sp) =>
                LET m == SetMin({AbsStart(sc, i, str, sp) : i \in M})
                    best == SetMin({i \in M : AbsStart(sc, i, str, sp) = m})
                IN  /\ ret.result.kind = "result"
                    /\ ret.result.index = best - 1
                    /\ ret.result.captureIndices[1].start = Num(m)

\* C2: if any usable pattern has a match whose reported start is exactly
\* startPosition (by the normal search or by the retry), findNextMatch
\* returns a result that starts at startPosition and carries the lowest
\* index among the patterns matching exactly there.
C2_ImmediateLowestIndex ==
    (LastFind /\ ret.status = "ok") =>
        LET sc == ret.scanner
            str == ret.str
            sp == ret.startPosition
            At == {i \in Matching(sc, str, sp) : AbsStart(sc, i, str, sp) = sp}
        IN  At # {} =>
                /\ ret.result.kind = "result"
                /\ ret.result.index = SetMin(At) - 1
                /\ ret.result.captureIndices[1].start = Num(sp)

\* C3: over any sequence of createScanner calls on one cache the compiler is
\* called at most once per pattern text: a compiled pattern is served from
\* the cache as the same object ever after, and a failed one is not compiled
\* again.
C3_CompiledAtMostOnce ==
    /\ \A p \in Patterns : compiles[p] <= 1 /\ Cardinality(ObjectsOf(p)) <= 1
    /\ \A sc \in scanners : \A k \in 1 .. Len(sc.patterns) :
          sc.regexps[k] = IF cache[sc.patterns[k]].kind = "RegExp"
                          THEN cache[sc.patterns[k]] ELSE NullRef

\* A construction served from the cache alone: it compiled nothing, and it
\* holds both a cached matcher and a pattern disabled by a recorded failure
C3_Witness ==
    /\ LastCreate /\ ret.status = "ok" /\ ret.compiled = {}
    /\ \E k \in 1 .. Len(ret.patterns) : ret.scanner.regexps[k].kind = "RegExp"
    /\ \E k \in 1 .. Len(ret.patterns) :
          ret.scanner.regexps[k] = NullRef /\ cache[ret.patterns[k]].kind = "Error"

\* C4: the cache only grows: a key once present is never removed and its
\* value (matcher or recorded failure) is never replaced by another.
C4_CacheOnlyGrows ==
    [][\A p \in Patterns : cache[p] # Absent => cache'[p] = cache[p]]_vars

\* A findNextMatch call made while the cache holds a matcher and a failure,
\* after several constructions have added to it
C4_Witness ==
    /\ LastFind
    /\ Cardinality({p \in Patterns : cache[p].kind = "RegExp"}) >= 3
    /\ \E p \in Patterns : cache[p].kind = "Error"

\* C5: in forgiving mode createScanner succeeds whatever patterns fail to
\* compile, their slots hold null, and no later findNextMatch on the scanner
\* throws or returns the index of such a pattern.
C5_ForgivingDisablesPattern ==
    /\ (LastCreate /\ ret.forgiving) =>
          /\ ret.status = "ok"
          /\ \A k \in 1 .. Len(ret.patterns) :
                Fails(ret.patterns[k]) => ret.scanner.regexps[k] = NullRef
    /\ (LastFind /\ ret.scanner.forgiving) =>
          /\ ret.status = "ok"
          /\ ret.result.kind = "result" =>
                /\ ret.result.index + 1 \in 1 .. Len(ret.scanner.patterns)
                /\ ~Fails(ret.scanner.patterns[ret.result.index + 1])

\* A match returned by a forgiving scanner one of whose patterns failed
C5_Witness ==
    /\ Returned /\ ret.scanner.forgiving
    /\ \E k \in 1 .. Len(ret.scanner.patterns) :
          Fails(ret.scanner.patterns[k]) /\ ret.scanner.regexps[k] = NullRef

\* C6: in non-forgiving mode a pattern that fails to compile makes
\* createScanner fail without producing a scanner, and the error thrown is
\* the original compilation error, on a cache miss as on a recorded failure.
C6_NonForgivingFails ==
    /\ \A sc \in scanners :
          ~sc.forgiving => \A k \in 1 .. Len(sc.patterns) : ~Fails(sc.patterns[k])
    /\ (LastCreate /\ ~ret.forgiving
          /\ \E k \in 1 .. Len(ret.patterns) : Fails(ret.patterns[k])) =>
          LET k == SetMin({j \in 1 .. Len(ret.patterns) : Fails(ret.patterns[j])})
              p == ret.patterns[k]
          IN  /\ ret.status = "throw"
              /\ ret.error.kind = "Error"
              /\ ret.error = cache[p]
              /\ ObjectsOf(p) = {ret.error.id}
              /\ Deref(heap, ret.error.id) = [type |-> "Error", source |-> p]

\* A non-forgiving construction that failed on a failure recorded earlier
C6_Witness ==
    /\ LastCreate /\ ~ret.forgiving /\ ret.status = "throw"
    /\ Deref(heap, ret.error.id).source \notin ret.compiled

\* The captures a match reports once its indices are moved by an offset
Translated(indices, offset) ==
    [g \in 1 .. Len(indices) |->
        IF indices[g].kind = "null"
        THEN [start |-> MAX, length |-> Num(0), end |-> MAX]
        ELSE [start |-> Num(indices[g].s + offset),
              length |-> Num(indices[g].e - indices[g].s),
              end |-> Num(indices[g].e + offset)]]

\* C7: every result carries a pattern index inside the pattern list whose
\* matcher is not null, and its captures are those of that pattern's own
\* match.
C7_ResultIsOwnMatch ==
    Returned =>
        LET sc == ret.scanner
            i == ret.result.index + 1
        IN  /\ 0 <= ret.result.index /\ ret.result.index < Len(sc.patterns)
            /\ i \in Usable(sc)
            /\ i \in Matching(sc, ret.str, ret.startPosition)
            /\ ret.result.captureIndices =
                  Translated(Attempt(sc, i, ret.str, ret.startPosition).match.indices,
                             Attempt(sc, i, ret.str, ret.startPosition).offset)

\* A result chosen among several pending matches, not the first of them
C7_Witness ==
    /\ Returned
    /\ Cardinality(Matching(ret.scanner, ret.str, ret.startPosition)) >= 2
    /\ \E j \in Matching(ret.scanner, ret.str, ret.startPosition) :
          j < ret.result.index + 1

\* C8: a group that did not take part is reported as start = end = MAX and
\* length 0; a group that did is reported with length = end - start, its
\* start and end moved by startPosition when the match came from the retry
\* (every group, not only group 0) and unmoved when it came from the normal
\* search.
C8_CaptureTranslation ==
    (Returned /\ ret.result.index + 1 \in Matching(ret.scanner, ret.str, ret.startPosition)) =>
        LET sc == ret.scanner
            i == ret.result.index + 1
            sp == ret.startPosition
            indices == Attempt(sc, i, ret.str, sp).match.indices
            shift == IF FromRetry(sc, i, ret.str, sp) THEN sp ELSE 0
            caps == ret.result.captureIndices
        IN  /\ Len(caps) = Len(indices)
            /\ \A g \in 1 .. Len(indices) :
                  IF indices[g].kind = "null"
                  THEN caps[g].start = MAX /\ caps[g].end = MAX /\ caps[g].length = Num(0)
                  ELSE /\ caps[g].start = Num(indices[g].s + shift)
                       /\ caps[g].end = Num(indices[g].e + shift)
                       /\ caps[g].length = Num(indices[g].e - indices[g].s)

\* A result of the retry at a positive startPosition, with a group that took
\* part besides group 0 and a group that did not
C8_Witness ==
    /\ Returned /\ ret.startPosition > 0
    /\ ret.result.index + 1 \in Matching(ret.scanner, ret.str, ret.startPosition)
    /\ FromRetry(ret.scanner, ret.result.index + 1, ret.str, ret.startPosition)
    /\ \E g \in 2 .. Len(ret.result.captureIndices) :
          ret.result.captureIndices[g].start # MAX
    /\ \E g \in 2 .. Len(ret.result.captureIndices) :
          ret.result.captureIndices[g].start = MAX

\* C9: when constructions over overlapping pattern lists are in progress at
\* the same time and first-use the same pattern, the cache ends up with one
\* result for it, every scanner holds that same matcher, and no construction
\* overwrites an entry written by another.
C9_ConcurrentFirstUse ==
    /\ \A p \in Patterns : Cardinality(ObjectsOf(p)) <= 1
    /\ \A p \in Patterns : ObjectsOf(p) # {} => cache[p].id \in ObjectsOf(p)
    /\ \A b \in Builders : InProgress(b) =>
          \A k \in 1 .. Len(building[b].regexps) :
             building[b].regexps[k] =
                IF cache[building[b].patterns[k]].kind = "RegExp"
                THEN cache[building[b].patterns[k]] ELSE NullRef

\* Two constructions, neither finished, that both hold the matcher of the
\* same pattern
C9_Witness ==
    \E b1, b2 \in Builders :
        /\ b1 # b2
        /\ building[b1].pc = "map" /\ building[b2].pc = "map"
        /\ \E k1 \in 1 .. Len(building[b1].regexps), k2 \in 1 .. Len(building[b2].regexps) :
              /\ building[b1].regexps[k1].kind = "RegExp"
              /\ building[b1].regexps[k1] = building[b2].regexps[k2]

\* The heap with the lastIndex of every matcher set to n
WithLastIndex(h, n) ==
    [p \in DOMAIN h |->
        [k \in 1 .. Len(h[p]) |->
            IF h[p][k].type = "RegExp" THEN [h[p][k] EXCEPT !.lastIndex = n] ELSE h[p][k]]]

\* C10 as stated: no findNextMatch call writes a field of a matcher object
\* shared through the cache: the search origin stays in the call's own frame.
C10_MatcherNeverWritten ==
    [][\A id \in Ids(heap) : Deref(heap', id) = Deref(heap, id)]_vars

\* C10 as amended: lastIndex is the only field of a shared matcher a call
\* writes, and since it is written before every search, what a call returns
\* does not depend on the lastIndex the matchers held when it began.
C10_OnlyLastIndexWritten ==
    /\ [][\A id \in Ids(heap) :
            /\ Deref(heap', id).type = Deref(heap, id).type
            /\ Deref(heap', id).source = Deref(heap, id).source]_vars
    /\ [](LastFind =>
            \A n \in 0 .. Len(ret.str) + 1 :
               LET r == ScanFrom(ret.scanner, ret.str, ret.startPosition, 1,
                                 WithLastIndex(heap, n), <<>>, <<>>)
               IN  r.status = ret.status /\ r.result = ret.result)

\* A call that returned a match although it began with a matcher whose
\* lastIndex an earlier search had left away from 0
C10_Witness == Returned /\ ret.dirty

\* C11: findNextMatch returns null exactly when no usable pattern matches at
\* or after startPosition, neither by the normal search nor by the retry; a
\* scanner with no usable pattern (an empty list, or every slot null)
\* returns null for every buffer and every startPosition.
C11_NullIffNoMatch ==
    (LastFind /\ ret.status = "ok") =>
        /\ (ret.result = NullResult) <=>
              (Matching(ret.scanner, ret.str, ret.startPosition) = {})
        /\ (Usable(ret.scanner) = {}) => (ret.result = NullResult)

\* a scanner with usable patterns answered null, and one without any is live
C11_Witness ==
    /\ LastFind /\ ret.status = "ok" /\ ret.result = NullResult
    /\ Usable(ret.scanner) # {}
    /\ \E sc \in scanners : Usable(sc) = {}

\* The set of lines a brace list denotes, written out for each meta: a
\* number k denotes k, a range a-b all the integers from a to b (none when
\* a > b); a meta without a brace list denotes no line
Denoted(raw) ==
    CASE raw = Raw(<<"{", "1", ",", "3", "-", "5", "}">>) -> {1, 3, 4, 5}
      [] raw = Raw(<<"{", "2", "}">>) -> {2}
      [] raw = Raw(<<"{", "0", "}">>) -> {0}
      [] raw = Raw(<<"{", "1", "2", "}">>) -> {12}
      [] raw = Raw(<<"{", "4", "-", "4", "}">>) -> {4}
      [] raw = Raw(<<"{", "5", "-", "2", "}">>) -> {}
      [] raw = Raw(<<"t", "{", "2", "-", "3", "}", " ", "s">>) -> {2, 3}
      [] raw = Raw(<<"{", "t", "}", "{", "6", ",", "1", "}">>) -> {1, 6}
      [] OTHER -> {}

\* C12: with the meta-highlight transformer a rendered line n carries the
\* highlight class exactly when the raw meta holds a brace list and n (n - 1
\* when zeroIndexed) is in the set the list denotes; without a meta or
\* without a brace list no line carries it.
C12_HighlightedLines ==
    \A n \in 1 .. hl.line :
        (n \in hl.classes) <=>
            ((IF hl.zeroIndexed THEN n - 1 ELSE n) \in Denoted(hl.raw))

\* the lines of a block with {1,3-5}, and of a zero-indexed one with {0}
C12_Witness ==
    \/ /\ hl.raw = Raw(<<"{", "1", ",", "3", "-", "5", "}">>)
       /\ ~hl.zeroIndexed /\ hl.line = 6 /\ hl.classes = {1, 3, 4, 5}
    \/ /\ hl.raw = Raw(<<"{", "1", ",", "3", "-", "5", "}">>)
       /\ hl.zeroIndexed /\ hl.line = 6 /\ hl.classes = {2, 4, 5, 6}

\* The log of the last call: the 0-based positions it executed, and those
\* whose matcher raised
Executed == {ret.log[k].index : k \in 1 .. Len(ret.log)}
Raised == {ret.log[k].index : k \in {j \in 1 .. Len(ret.log) : ret.log[j].kind = "throw"}}

\* C13 as claimed: in forgiving mode a matcher that raised in a call is not
\* executed by the next call on the same scanner.
C13_NotExecutedAgain ==
    [][(LastFind /\ ret.scanner.forgiving /\ LastFind' /\ ret'.scanner = ret.scanner)
         => \A k \in 1 .. Len(ret'.log) : ret'.log[k].index \notin Raised]_vars

\* C13: in forgiving mode an execution error is swallowed for the call at
\* hand only and nothing is recorded: every call executes, in order, every
\* usable matcher of the scanner, whatever raised before, up to the one
\* whose match at startPosition ends the call.
C13_ExecutedEveryCall ==
    (LastFind /\ ret.scanner.forgiving) =>
        LET u == {i - 1 : i \in Usable(ret.scanner)}
            n == Len(ret.log)
        IN  /\ ret.status = "ok"
            /\ \A k \in 1 .. n : ret.log[k].index \in u
            /\ \A k \in 1 .. n - 1 : ret.log[k].index < ret.log[k + 1].index
            /\ \A i \in u : i \in Executed \/ (n > 0 /\ i > ret.log[n].index)
            /\ (Executed # u) =>
                  /\ ret.log[n].kind = "match"
                  /\ ret.result.kind = "result"
                  /\ ret.result.index = ret.log[n].index

\* a matcher raised in a call that found it with the lastIndex an earlier
\* execution had left on it
C13_Witness ==
    /\ LastFind /\ ret.scanner.forgiving /\ ret.status = "ok"
    /\ Raised \cap ret.stale # {}

\* The scanner without the matchers at the 0-based positions in gone; the
\* other patterns keep their indices
Without(sc, gone) ==
    [sc EXCEPT !.regexps =
        [k \in 1 .. Len(sc.regexps) |->
            IF k - 1 \in gone THEN NullRef ELSE sc.regexps[k]]]

\* C14: when a matcher raises while findNextMatch executes it, a forgiving
\* scanner swallows the error and returns what the other patterns alone
\* would have given; a non-forgiving scanner lets the error out and returns
\* no result, whatever candidates were pending.
C14_ExecutionErrorPolicy ==
    (LastFind /\ Raised # {}) =>
        IF ret.scanner.forgiving
        THEN /\ ret.status = "ok"
             /\ ret.result = ScanFrom(Without(ret.scanner, Raised), ret.str,
                                      ret.startPosition, 1, heap, <<>>, <<>>).result
        ELSE /\ ret.status = "throw"
             /\ ret.result = NullResult

\* the error left a non-forgiving call that had a candidate pending
C14_Witness ==
    /\ LastFind /\ ~ret.scanner.forgiving /\ ret.status = "throw"
    /\ \E k \in 1 .. Len(ret.log) : ret.log[k].kind = "match"

\* C15: the pattern list, the matcher list and the anchor-flag list of every
\* scanner have the same length; a scanner keeps the lists it was constructed
\* with in every later state; and a findNextMatch call changes neither the
\* scanners' lists nor the entries of the cache.
C15_ListsFixed ==
    /\ [](\A sc \in scanners :
             /\ Len(sc.regexps) = Len(sc.patterns)
             /\ Len(sc.contiguousAnchorSimulation) = Len(sc.patterns))
    /\ [][/\ scanners \subseteq scanners'
          /\ (ret'.op = "findNextMatch") => (scanners' = scanners /\ cache' = cache)]_vars

\* a second call on a scanner that has a disabled slot and a flagged pattern
C15_Witness ==
    /\ LastFind /\ ret.scanner \in scanners /\ ret.stale # {}
    /\ \E i, j \in 1 .. Len(ret.scanner.patterns) :
          /\ ret.scanner.regexps[i] = NullRef
          /\ ret.scanner.contiguousAnchorSimulation[j]

\* The pattern text begins with (^|\G) or with (\G|^)
BeginsWithAnchor(p) ==
    /\ Len(p) >= 6
    /\ \/ <<p[1], p[2], p[3], p[4], p[5], p[6]>> = <<"(", "^", "|", "\\", "G", ")">>
       \/ <<p[1], p[2], p[3], p[4], p[5], p[6]>> = <<"(", "\\", "G", "|", "^", ")">>

\* C16: a scanner's flag is set exactly for the patterns whose text begins
\* with one of the two prefixes; a call tries a pattern on the cut string if
\* and only if its search from startPosition found nothing and the pattern
\* is flagged; a result that does not come from the retry carries the
\* offsets of the search on the whole buffer, unshifted.
C16_RetryIffFlaggedMiss ==
    /\ \A sc \in scanners : \A i \in 1 .. Len(sc.patterns) :
          sc.contiguousAnchorSimulation[i] <=> BeginsWithAnchor(sc.patterns[i])
    /\ LastFind =>
          \A k \in 1 .. Len(ret.log) :
             LET e == ret.log[k]
                 first == FirstSearch(ret.scanner, e.index + 1, ret.str,
                                      ret.startPosition, heap)
             IN  /\ e.retry <=>
                       /\ first.kind = "null"
                       /\ BeginsWithAnchor(ret.scanner.patterns[e.index + 1])
                 /\ (~e.retry /\ ret.result.kind = "result"
                        /\ ret.result.index = e.index) =>
                       ret.result = ToResult(e.index, first.match, 0)

\* one call searched an unflagged pattern on the whole buffer only and
\* returned what the retry of a flagged one found
C16_Witness ==
    /\ Returned
    /\ \E j, k \in 1 .. Len(ret.log) :
          /\ ~ret.log[j].retry
          /\ ~ret.scanner.contiguousAnchorSimulation[ret.log[j].index + 1]
          /\ ret.log[k].retry /\ ret.log[k].kind = "match"
          /\ ret.result.index = ret.log[k].index

\* a <= b for numbers written as limbs
NumLeq(a, b) == a.hi < b.hi \/ (a.hi = b.hi /\ a.lo <= b.lo)

\* C17: the reported start of capture group 0 of a returned result is
\* greater than or equal to startPosition.
C17_StartNotBeforeStartPosition ==
    Returned => NumLeq(Num(ret.startPosition), ret.result.captureIndices[1].start)

\* a match found by the retry, after a startPosition other than 0
C17_Witness ==
    /\ Returned /\ ret.startPosition > 0
    /\ ret.result.captureIndices[1].start # Num(ret.startPosition)
    /\ \E k \in 1 .. Len(ret.log) :
          ret.log[k].retry /\ ret.log[k].index = ret.result.index

\* What the call gives in a world where nothing has happened before: the
\* scanner is constructed on an empty cache and searched at once
FreshBuilt(patterns, forgiving) ==
    Construct(ConstructStart([p \in Patterns |-> Absent], [p \in Patterns |-> <<>>],
                             [p \in Patterns |-> 0], patterns),
              patterns, 1, forgiving)
FreshScan(patterns, forgiving, str, sp, st) ==
    ScanFrom(Scanner(patterns, forgiving, st), str, sp, 1, st.heap, <<>>, <<>>)
FreshCall(sc, str, sp) ==
    FreshScan(sc.patterns, sc.forgiving, str, sp, FreshBuilt(sc.patterns, sc.forgiving))

\* C18: what findNextMatch returns is determined by the scanner's pattern
\* list, the buffer and startPosition: after any earlier calls, on this
\* scanner or on scanners sharing its matchers, it is what a scanner built
\* from the same patterns and never used before returns for the same
\* arguments.
C18_HistoryIndependent ==
    LastFind =>
        /\ ret.status = FreshCall(ret.scanner, ret.str, ret.startPosition).status
        /\ ret.result = FreshCall(ret.scanner, ret.str, ret.startPosition).result

\* the call found a matcher used before, and another live scanner shares one
\* of its matchers
C18_Witness ==
    /\ Returned /\ ret.stale # {}
    /\ \E other \in scanners \ {ret.scanner} :
          \E i \in 1 .. Len(other.regexps), j \in 1 .. Len(ret.scanner.regexps) :
              /\ other.regexps[i].kind = "RegExp"
              /\ other.regexps[i] = ret.scanner.regexps[j]

\* C19: every participating capture span of a returned result lies inside
\* the buffer: start <= end <= buffer length, for every startPosition, also
\* one past the end of the buffer.
C19_SpansInsideBuffer ==
    Returned =>
        \A g \in 1 .. Len(ret.result.captureIndices) :
            LET c == ret.result.captureIndices[g]
            IN  (c.start # MAX) =>
                    /\ NumLeq(c.start, c.end)
                    /\ NumLeq(c.end, Num(Len(ret.str)))

====
